---- MODULE Spec2Model ----
(***************************************************************************)
(* The orchestrator of src/orch.c: the job queue and its deferred start    *)
(* and finish transitions, the IsolateAll fan-out job, and the node        *)
(* registry with Register and disconnect.                                  *)
(*                                                                         *)
(* The program is single threaded: every handler runs to completion on the *)
(* event loop, so each action below is one whole callback.  The handlers   *)
(* are written as operators on a record s holding the program's memory, so *)
(* that the calls a handler makes compose the way they do in the C code.   *)
(* A failed assert() stops the process: the record keeps what the handler  *)
(* had done up to that point and no further callback runs.                 *)
(***************************************************************************)
EXTENDS Integers, Sequences, FiniteSets

\* Bounds of the model.
MaxJobs == 2        \* IsolateAll calls made by clients
MaxNodes == 2       \* peer connections alive at the same time

NULL == 0

JobIds == 1..MaxJobs

\* The names peers ask for in Register; name k stands for the string
\* "node<k>".  Two names give a conflict and a name that is still free.
Names == {1, 2}

\* What a per-node Isolate call can come back with.
ReplyKinds == {"ok", "error", "timeout"}

\* What the program emits for a job: the messages on the client bus (JobNew,
\* Reply, State, JobRemoved), the removal of the job's object from the bus,
\* and the calls of the start hook, of finish_job and of free().
Kinds == {"JobNew", "Reply", "State", "start", "finish", "JobRemoved",
          "vtable_removed", "free"}

VARIABLES
    next_job_id,    \* Orchestrator.next_job_id
    jobs,           \* Orchestrator.jobs, the queue: sequence of job ids
    job,            \* the Job objects, by id
    current_job,    \* Orchestrator.current_job: a job id or NULL
    job_source,     \* Orchestrator.job_source: "NULL", or the callback of the source
    nodes,          \* Orchestrator.nodes, the registry: sequence of Node objects
    aborted,        \* "none", or the assert() that stopped the process
    out,            \* history: what the handler that ran last emitted, in order
    hist,           \* history: how many events of each kind each job has had so far
    last            \* history: the Register call, Isolate reply or disconnect handled last

vars == <<next_job_id, jobs, job, current_job, job_source, nodes, aborted,
          out, hist, last>>

\* A Job that does not exist (never allocated, or freed).  replied_error is
\* history, not a field of the program: whether a reply to one of the job's
\* calls was an error or a timeout.
NoJob == [ref_count |-> 0, state |-> "waiting", result |-> 0, outstanding |-> 0,
          bus_slot |-> FALSE, source_message |-> FALSE, replied_error |-> FALSE]

\* A Node as node_new makes it, before its peer is set.  peer is the state of
\* the connection and reply_callbacks the jobs with a call outstanding on it.
NoNode == [ref_count |-> 0, name |-> NULL, peer |-> "none", reply_callbacks |-> {},
           object_path |-> NULL, bus_slot |-> FALSE]

NoLast == [op |-> "none", node |-> 0, name |-> 0, reply |-> ""]

Ev(kind, id) == [ev |-> kind, id |-> id, res |-> "", n |-> 0]

\* The program's memory as one record; a handler starts with nothing emitted.
\* An action binds the record its handler returns (\E s \in {...}) and
\* assigns it to the variables.
Cur == [next_job_id |-> next_job_id, jobs |-> jobs, job |-> job,
        current_job |-> current_job, job_source |-> job_source,
        nodes |-> nodes, aborted |-> aborted, out |-> <<>>, hist |-> hist]

Set(s) ==
    /\ next_job_id' = s.next_job_id
    /\ jobs' = s.jobs
    /\ job' = s.job
    /\ current_job' = s.current_job
    /\ job_source' = s.job_source
    /\ nodes' = s.nodes
    /\ aborted' = s.aborted
    /\ out' = s.out
    /\ hist' = s.hist

Running(s) == s.aborted = "none"

\* The one element of a set.  A step of a handler is written
\* Only({f(s) : s \in {s0}}): the memory s0 it starts from is evaluated once
\* and the step is a function f of that value.
Only(S) == CHOOSE r \in S : TRUE

\* A failed assert(): the process stops here.
Abort(s0, what) ==
    Only({IF Running(s) THEN [s EXCEPT !.aborted = what] ELSE s : s \in {s0}})

\* Nothing runs once the process has stopped.
Emit(s0, e) ==
    Only({IF Running(s)
          THEN [s EXCEPT !.out = Append(@, e), !.hist[e.id][e.ev] = @ + 1]
          ELSE s : s \in {s0}})

\* LIST_REMOVE of the i-th element.
RemoveAt(q, i) == [k \in 1..(Len(q) - 1) |-> IF k < i THEN q[k] ELSE q[k + 1]]

\* LIST_REMOVE of element x.
Remove(q, x) ==
    LET at == {k \in 1..Len(q) : q[k] = x}
    IN IF at = {} THEN q ELSE RemoveAt(q, CHOOSE k \in at : \A m \in at : k <= m)

Range(q) == {q[i] : i \in 1..Len(q)}

\* job_result_to_string: JobResult 0 is the value malloc0 leaves in Job.result.
job_result_to_string(r) ==
    CASE r = 0 -> "done"
      [] r = 1 -> "failed"
      [] r = 2 -> "cancelled"
      [] OTHER -> "timeout"

(***************************************************************************)
(* Jobs                                                                    *)
(***************************************************************************)

\* job_new giving every job the id 1.
job_new_same_id(s0) ==
    Only({[s EXCEPT !.next_job_id = 1,
                    !.job[1] = [NoJob EXCEPT !.ref_count = 1, !.state = "waiting"]]
          : s \in {s0}})

\* job_new with every allocation succeeding; the new job is job[next_job_id].
job_new(s0) ==
    Only({[s EXCEPT !.next_job_id = @ + 1,
                    !.job[s.next_job_id + 1] = [NoJob EXCEPT !.ref_count = 1,
                                                              !.state = "waiting"]]
          : s \in {s0}})

job_ref(s0, id) ==
    Only({IF Running(s) THEN [s EXCEPT !.job[id].ref_count = @ + 1] ELSE s
          : s \in {s0}})

\* free(job), after the release of its bus slot, which takes the job's object
\* off the client bus.
job_free(s0, id) ==
    Only({[Emit(IF s.job[id].bus_slot THEN Emit(s, Ev("vtable_removed", id)) ELSE s,
                Ev("free", id))
             EXCEPT !.job[id] = NoJob]
          : s \in {s0}})

\* The last unref frees the job.
job_unref(s0, id) ==
    Only({IF ~Running(s) THEN s
          ELSE IF s.job[id].ref_count - 1 = 0 THEN job_free(s, id)
          ELSE [s EXCEPT !.job[id].ref_count = @ - 1]
          : s \in {s0}})

\* orch_add_job linking the job without taking a reference.
orch_add_job_without_ref(s0, id) ==
    Only({IF Running(s) THEN [s EXCEPT !.jobs = Append(@, id)] ELSE s
          : s \in {s0}})

orch_add_job(s0, id) ==
    Only({IF Running(s) THEN [job_ref(s, id) EXCEPT !.jobs = Append(@, id)] ELSE s
          : s \in {s0}})

\* orch_remove_job without the LIST_REMOVE.
orch_remove_job_no_unlink(s0, id) == job_unref(s0, id)

orch_remove_job(s0, id) ==
    Only({IF Running(s) THEN job_unref([s EXCEPT !.jobs = Remove(@, id)], id) ELSE s
          : s \in {s0}})

orch_send_job_new_signal(s0, id) == Emit(s0, Ev("JobNew", id))

orch_send_job_removed_signal(s0, id) ==
    Only({Emit(s, [Ev("JobRemoved", id)
                     EXCEPT !.res = job_result_to_string(s.job[id].result)])
          : s \in {s0}})

\* finish_job: the two asserts, then the deferred finish_job_cb.
finish_job(s0, id) ==
    Only({IF ~Running(s) THEN s
          ELSE IF s.current_job # id THEN Abort(s, "assert current_job == job")
          ELSE IF s.job_source # "NULL" THEN Abort(s, "assert job_source == NULL")
          ELSE [s EXCEPT !.job_source = "finish"]
          : s \in {Emit(s0, Ev("finish", id))}})

\* "if (outstanding == 0) finish_job(job)", at the end of the start hook and
\* of the reply callback.
finish_if_none_outstanding(s0, id) ==
    Only({IF Running(s) /\ s.job[id].outstanding = 0 THEN finish_job(s, id) ELSE s
          : s \in {s0}})

\* The loop of job_isolate_all over the registry, from its i-th node on.
\* sd_bus_call_async on a connection that is no longer open returns an error,
\* and the assert on its result stops the process.
\* A call that was made is noted in out as "Isolate" with the position n of
\* its node (a message on the connection of the node, not an event of Kinds).
RECURSIVE isolate_all_loop(_, _, _)
isolate_all_loop(s0, id, i) ==
    Only({IF i > Len(s.nodes) \/ ~Running(s) THEN s
          ELSE IF s.nodes[i].peer # "open" THEN Abort(s, "assert call_async")
          ELSE isolate_all_loop(
                 [s EXCEPT !.nodes[i].reply_callbacks = @ \cup {id},
                           !.job[id].outstanding = @ + 1,
                           !.out = Append(@, [Ev("Isolate", id) EXCEPT !.n = i])],
                 id, i + 1)
          : s \in {s0}})

\* job_isolate_all, the start hook of an IsolateAll job.
job_isolate_all(s0, id) ==
    Only({finish_if_none_outstanding(
             isolate_all_loop(Emit(s, [Ev("start", id) EXCEPT !.n = Len(s.nodes)]), id, 1),
             id)
          : s \in {s0}})

\* job_isolate_all_cb calling finish_job on every reply.
job_isolate_all_cb_finish_each(s0, id) ==
    Only({finish_job([s EXCEPT !.job[id].outstanding = @ - 1], id) : s \in {s0}})

\* job_isolate_all_cb testing "outstanding-- == 0", the value before the
\* decrement.
job_isolate_all_cb_post_decrement(s0, id) ==
    Only({IF s.job[id].outstanding = 0
          THEN finish_job([s EXCEPT !.job[id].outstanding = @ - 1], id)
          ELSE [s EXCEPT !.job[id].outstanding = @ - 1]
          : s \in {s0}})

\* job_isolate_all_cb, the reply callback of one Isolate call.  The reply
\* message (and whether it is an error) is not looked at.
job_isolate_all_cb(s0, id) ==
    Only({finish_if_none_outstanding([s EXCEPT !.job[id].outstanding = @ - 1], id)
          : s \in {s0}})

\* try_start_job setting current_job without taking a reference.
start_head_without_ref(s0, id) ==
    Only({job_isolate_all(
             Emit([s EXCEPT !.current_job = id, !.job[id].state = "running"],
                  Ev("State", id)),
             id)
          : s \in {s0}})

\* try_start_job on a queue whose head is job id.
start_head(s0, id) ==
    Only({job_isolate_all(
             Emit([s EXCEPT !.current_job = id, !.job[id].state = "running"],
                  Ev("State", id)),
             id)
          : s \in {job_ref(s0, id)}})

\* try_start_job taking the tail of the queue instead of its head.
try_start_job_last(s0) ==
    Only({IF ~Running(s) \/ s.jobs = <<>> THEN s ELSE start_head(s, s.jobs[Len(s.jobs)])
          : s \in {s0}})

try_start_job(s0) ==
    Only({IF ~Running(s) \/ s.jobs = <<>> THEN s ELSE start_head(s, Head(s.jobs))
          : s \in {s0}})

\* "sd_event_source_unref (orch->job_source); orch->job_source = NULL", at the
\* end of both deferred callbacks.
clear_job_source(s0) ==
    Only({IF Running(s) THEN [s EXCEPT !.job_source = "NULL"] ELSE s : s \in {s0}})

\* finish_job_cb without the try_start_job of the next job.
finish_current_without_try_start(s0, id) ==
    job_unref(
        clear_job_source(
            orch_remove_job(
                orch_send_job_removed_signal(s0, id),
                id)),
        id)

\* finish_job_cb sending JobRemoved last, after the cleanup of the job.
finish_current_signal_last(s0, id) ==
    orch_send_job_removed_signal(
        job_unref(clear_job_source(try_start_job(orch_remove_job(s0, id))), id),
        id)

\* finish_job_cb once the local job holds what current_job held, up to the
\* cleanup of the local job.
finish_current(s0, id) ==
    job_unref(
        clear_job_source(
            try_start_job(
                orch_remove_job(
                    orch_send_job_removed_signal(s0, id),
                    id))),
        id)

\* finish_job_cb reading current_job without clearing it.
finish_job_cb_keep_current(s0) ==
    Only({IF s.current_job = NULL
          THEN Abort(s, "assert job != NULL")
          ELSE finish_current(s, s.current_job)
          : s \in {s0}})

finish_job_cb(s0) ==
    Only({IF s.current_job = NULL
          THEN Abort([s EXCEPT !.current_job = NULL], "assert job != NULL")
          ELSE finish_current([s EXCEPT !.current_job = NULL], s.current_job)
          : s \in {s0}})

start_job_cb(s0) == clear_job_source(try_start_job(s0))

\* schedule_job registering the start task whenever the queue is not empty.
schedule_job_unguarded(s0) ==
    Only({IF ~Running(s) THEN s
          ELSE IF s.jobs = <<>> THEN s
          ELSE [s EXCEPT !.job_source = "start"]
          : s \in {s0}})

\* schedule_job starting the job itself instead of deferring the start.
schedule_job_inline(s0) ==
    Only({IF ~Running(s) THEN s
          ELSE IF s.current_job # NULL \/ s.job_source # "NULL" THEN s
          ELSE IF s.jobs = <<>> THEN s
          ELSE try_start_job(s)
          : s \in {s0}})

schedule_job(s0) ==
    Only({IF ~Running(s) THEN s
          ELSE IF s.current_job # NULL \/ s.job_source # "NULL" THEN s
          ELSE IF s.jobs = <<>> THEN s
          ELSE [s EXCEPT !.job_source = "start"]
          : s \in {s0}})

\* orch_queue_job without orch_send_job_new_signal.
queue_new_job_no_signal(s0, id) ==
    Only({job_unref(
             schedule_job(
                 orch_add_job(job_ref([s EXCEPT !.job[id].bus_slot = TRUE], id), id)),
             id)
          : s \in {s0}})

\* orch_queue_job after job_new, for the new job id: the object on the bus,
\* the reference for *job_out, the queue, JobNew, schedule_job, and the
\* cleanup of the local job.
queue_new_job(s0, id) ==
    Only({job_unref(
             schedule_job(
                 orch_send_job_new_signal(
                     orch_add_job(
                         job_ref([s EXCEPT !.job[id].bus_slot = TRUE], id),
                         id),
                     id)),
             id)
          : s \in {s0}})

\* orch_queue_job with every allocation succeeding; *job_out is job[next_job_id].
orch_queue_job(s0) ==
    Only({queue_new_job(s, s.next_job_id) : s \in {job_new(s0)}})

\* method_orchestrator_isolate_all: the source message, the reply, and the
\* cleanup of the local job.
method_orchestrator_isolate_all(s0) ==
    Only({job_unref(
             Emit([s EXCEPT !.job[s.next_job_id].source_message = TRUE],
                  Ev("Reply", s.next_job_id)),
             s.next_job_id)
          : s \in {orch_queue_job(s0)}})

(***************************************************************************)
(* Nodes.  A Node * is the position of the node in the registry.           *)
(***************************************************************************)

node_new == [NoNode EXCEPT !.ref_count = 1]

node_ref(nd) == [nd EXCEPT !.ref_count = @ + 1]

\* The last unref frees the node.
node_unref(nd) == IF nd.ref_count - 1 = 0 THEN NoNode ELSE [nd EXCEPT !.ref_count = @ - 1]

orch_add_node(s, nd) == [s EXCEPT !.nodes = Append(@, node_ref(nd))]

\* The registry held the last reference, so the node is freed with it.
orch_remove_node(s, i) == [s EXCEPT !.nodes = RemoveAt(@, i)]

\* orch_find_node looking at the first node of the registry only.
orch_find_node_head_only(s, name) ==
    IF s.nodes # <<>> /\ s.nodes[1].name # NULL /\ s.nodes[1].name = name
    THEN 1 ELSE NULL

\* orch_find_node: the first node of the registry with that name, or NULL.
orch_find_node(s, name) ==
    LET found == {i \in 1..Len(s.nodes) :
                    s.nodes[i].name # NULL /\ s.nodes[i].name = name}
    IN IF found = {} THEN NULL
       ELSE CHOOSE i \in found : \A k \in found : i <= k

\* accept_handler with every library call succeeding.
accept_handler(s0) ==
    Only({[s EXCEPT !.nodes[Len(s.nodes)] = node_unref(@)]
          : s \in {orch_add_node(s0, [node_new EXCEPT !.peer = "open"])}})

\* node_disconnected closing the peer without orch_remove_node.
node_disconnected_keeps_node(s0, i) ==
    Only({IF s.nodes[i].peer # "none"
          THEN [s EXCEPT !.nodes[i].peer = "none", !.nodes[i].reply_callbacks = {}]
          ELSE s
          : s \in {s0}})

node_disconnected(s0, i) ==
    Only({orch_remove_node(
             IF s.nodes[i].peer # "none"
             THEN [s EXCEPT !.nodes[i].peer = "none", !.nodes[i].reply_callbacks = {}]
             ELSE s,
             i)
          : s \in {s0}})

\* Register without the "Can't register twice" test.
register_without_twice_check(s0, i, name) ==
    Only({IF orch_find_node(s, name) # NULL THEN [s |-> s, reply |-> "AddressInUse"]
          ELSE [s |-> [s EXCEPT !.nodes[i].name = name,
                                !.nodes[i].object_path = name,
                                !.nodes[i].bus_slot = TRUE],
                reply |-> "ok"]
          : s \in {s0}})

\* Register without the lookup of the name in the registry.
register_without_find_node(s0, i, name) ==
    Only({IF s.nodes[i].name # NULL THEN [s |-> s, reply |-> "AddressInUse"]
          ELSE [s |-> [s EXCEPT !.nodes[i].name = name,
                                !.nodes[i].object_path = name,
                                !.nodes[i].bus_slot = TRUE],
                reply |-> "ok"]
          : s \in {s0}})

\* method_peer_orchestrator_register with every allocation succeeding.
method_peer_orchestrator_register(s0, i, name) ==
    Only({IF s.nodes[i].name # NULL THEN [s |-> s, reply |-> "AddressInUse"]
          ELSE IF orch_find_node(s, name) # NULL THEN [s |-> s, reply |-> "AddressInUse"]
          ELSE [s |-> [s EXCEPT !.nodes[i].name = name,
                                !.nodes[i].object_path = name,
                                !.nodes[i].bus_slot = TRUE],
                reply |-> "ok"]
          : s \in {s0}})

(***************************************************************************)
(* The event loop: one action per callback it dispatches.                  *)
(***************************************************************************)

Init ==
    /\ next_job_id = 0
    /\ jobs = <<>>
    /\ job = [id \in JobIds |-> NoJob]
    /\ current_job = NULL
    /\ job_source = "NULL"
    /\ nodes = <<>>
    /\ aborted = "none"
    /\ out = <<>>
    /\ hist = [id \in JobIds |-> [k \in Kinds |-> 0]]
    /\ last = NoLast

\* A client calls IsolateAll.
IsolateAll ==
    /\ aborted = "none"
    /\ next_job_id < MaxJobs
    /\ \E s \in {method_orchestrator_isolate_all(Cur)} : Set(s)
    /\ last' = NoLast

\* The event loop runs the deferred start task.
StartJobCb ==
    /\ aborted = "none"
    /\ job_source = "start"
    /\ \E s \in {start_job_cb(Cur)} : Set(s)
    /\ last' = NoLast

\* The event loop runs the deferred finish task.
FinishJobCb ==
    /\ aborted = "none"
    /\ job_source = "finish"
    /\ \E s \in {finish_job_cb(Cur)} : Set(s)
    /\ last' = NoLast

\* The reply to the Isolate call of job id on node i arrives, or its timeout
\* of 30 seconds expires; on a connection that is closing the library fails
\* the call.
ReplyCb(i, id, kind) ==
    /\ aborted = "none"
    /\ i \in 1..Len(nodes)
    /\ id \in nodes[i].reply_callbacks
    /\ nodes[i].peer = "closing" => kind = "error"
    /\ \E s \in {job_isolate_all_cb(
                    [Cur EXCEPT !.nodes[i].reply_callbacks = @ \ {id},
                                !.job[id].replied_error = @ \/ kind # "ok"],
                    id)} : Set(s)
    /\ last' = [op |-> "job_isolate_all_cb", node |-> i, name |-> 0, reply |-> kind]

\* A peer connects.
Accept ==
    /\ aborted = "none"
    /\ Len(nodes) < MaxNodes
    /\ \E s \in {accept_handler(Cur)} : Set(s)
    /\ last' = NoLast

\* The peer of node i calls Register(name).
Register(i, name) ==
    /\ aborted = "none"
    /\ i \in 1..Len(nodes)
    /\ nodes[i].peer = "open"
    /\ \E r \in {method_peer_orchestrator_register(Cur, i, name)} :
          /\ Set(r.s)
          /\ last' = [op |-> "Register", node |-> i, name |-> name, reply |-> r.reply]

\* The connection of node i goes down.  The library first fails every call
\* outstanding on it, then delivers the Disconnected signal.
PeerHangup(i) ==
    /\ aborted = "none"
    /\ i \in 1..Len(nodes)
    /\ nodes[i].peer = "open"
    /\ Set([Cur EXCEPT !.nodes[i].peer = "closing"])
    /\ last' = NoLast

\* The Disconnected signal of the connection of node i.
NodeDisconnected(i) ==
    /\ aborted = "none"
    /\ i \in 1..Len(nodes)
    /\ nodes[i].peer = "closing"
    /\ nodes[i].reply_callbacks = {}
    /\ \E s \in {node_disconnected(Cur, i)} : Set(s)
    /\ last' = [op |-> "node_disconnected", node |-> i, name |-> nodes[i].name, reply |-> ""]

Next ==
    \/ IsolateAll
    \/ StartJobCb
    \/ FinishJobCb
    \/ \E i \in 1..MaxNodes, id \in JobIds, kind \in ReplyKinds : ReplyCb(i, id, kind)
    \/ Accept
    \/ \E i \in 1..MaxNodes, name \in Names : Register(i, name)
    \/ \E i \in 1..MaxNodes : PeerHangup(i)
    \/ \E i \in 1..MaxNodes : NodeDisconnected(i)

Spec == Init /\ [][Next]_vars

\* The event loop runs every pending deferred task, every call gets its reply
\* or its timeout, and a closed connection gets its Disconnected signal.
FairSpec ==
    /\ Spec
    /\ WF_vars(StartJobCb)
    /\ WF_vars(FinishJobCb)
    /\ WF_vars(\E i \in 1..MaxNodes, id \in JobIds, kind \in ReplyKinds : ReplyCb(i, id, kind))
    /\ WF_vars(\E i \in 1..MaxNodes : NodeDisconnected(i))

(***************************************************************************)
(* Failing allocations and library calls.                                  *)
(***************************************************************************)

ENOMEM == 12
EXIT_FAILURE == 1

\* The calls of IsolateAll's handler that can fail.
JobFailures == {"malloc0", "asprintf", "sd_bus_add_object_vtable"}

\* What dereferencing the NULL job can do in method_orchestrator_isolate_all:
\* the process is killed, or the stores through it are lost and the handler
\* goes on to its reply.
NullDerefs == {"killed", "continues"}

\* job_new failing at malloc0 (nothing happened yet) or at asprintf (the id
\* is taken, the zeroed job is released by free()); it returns NULL.
job_new_fails(s0, fail) ==
    Only({IF fail = "malloc0" THEN s ELSE [s EXCEPT !.next_job_id = @ + 1]
          : s \in {s0}})

\* orch_queue_job with one failing call: the memory it leaves, what it
\* returns, and *job_out (NULL: it is written on success only).  When
\* sd_bus_add_object_vtable fails the cleanup of the local job drops the only
\* reference of the new job.
orch_queue_job_fails(s0, fail) ==
    Only({IF fail \in {"malloc0", "asprintf"}
          THEN [s |-> job_new_fails(s, fail), r |-> 0 - ENOMEM, job_out |-> NULL]
          ELSE [s |-> Only({job_unref(n, n.next_job_id) : n \in {job_new(s)}}),
                r |-> EXIT_FAILURE, job_out |-> NULL]
          : s \in {s0}})

\* method_orchestrator_isolate_all when orch_queue_job fails: the error reply
\* on r < 0, else the use of the job, which is NULL.
method_orchestrator_isolate_all_fails(s0, fail, deref) ==
    Only({IF q.r < 0 THEN [s |-> q.s, reply |-> "error", errno |-> 0 - q.r]
          ELSE IF deref = "killed"
          THEN [s |-> Abort(q.s, "NULL job dereferenced"), reply |-> "none", errno |-> 0]
          ELSE [s |-> q.s, reply |-> "return", errno |-> 0]
          : q \in {orch_queue_job_fails(s0, fail)}})

\* A client calls IsolateAll and one call of the handler fails.
IsolateAllFails(fail, deref) ==
    /\ aborted = "none"
    /\ next_job_id < MaxJobs
    /\ \E r \in {method_orchestrator_isolate_all_fails(Cur, fail, deref)} :
          /\ Set(r.s)
          /\ last' = [op |-> "IsolateAll", node |-> 0, name |-> 0, reply |-> r.reply,
                      fail |-> fail, errno |-> r.errno]

\* The calls of Register's handler that can fail.
RegisterFailures == {"strdup", "asprintf", "sd_bus_add_object_vtable"}

\* method_peer_orchestrator_register with one failing call, after the two
\* AddressInUse tests.  strdup fails before anything is written; asprintf
\* fails with node->name already set and replies NoMemory; when
\* sd_bus_add_object_vtable fails the handler returns EXIT_FAILURE with the
\* name and the object path set and without a reply.  asprintf leaves the
\* object path as malloc0 made it, NULL.
method_peer_orchestrator_register_fails(s0, i, name, fail) ==
    Only({IF s.nodes[i].name # NULL THEN [s |-> s, reply |-> "AddressInUse"]
          ELSE IF orch_find_node(s, name) # NULL THEN [s |-> s, reply |-> "AddressInUse"]
          ELSE IF fail = "strdup" THEN [s |-> s, reply |-> "NoMemory"]
          ELSE IF fail = "asprintf"
          THEN [s |-> [s EXCEPT !.nodes[i].name = name], reply |-> "NoMemory"]
          ELSE [s |-> [s EXCEPT !.nodes[i].name = name, !.nodes[i].object_path = name],
                reply |-> "none"]
          : s \in {s0}})

\* The peer of node i calls Register(name) and one call of the handler
\* fails; the handler gets to these calls when neither AddressInUse test
\* answers.
RegisterFails(i, name, fail) ==
    /\ aborted = "none"
    /\ i \in 1..Len(nodes)
    /\ nodes[i].peer = "open"
    /\ nodes[i].name = NULL
    /\ orch_find_node(Cur, name) = NULL
    /\ \E r \in {method_peer_orchestrator_register_fails(Cur, i, name, fail)} :
          /\ Set(r.s)
          /\ last' = [op |-> "Register", node |-> i, name |-> name, reply |-> r.reply,
                      fail |-> fail]

NextFail ==
    \/ Next
    \/ \E fail \in JobFailures, deref \in NullDerefs : IsolateAllFails(fail, deref)

SpecFail == Init /\ [][NextFail]_vars

NextRegisterFail ==
    \/ Next
    \/ \E i \in 1..MaxNodes, name \in Names, fail \in RegisterFailures :
          RegisterFails(i, name, fail)

SpecRegisterFail == Init /\ [][NextRegisterFail]_vars

(***************************************************************************)
(* Reading the history.                                                    *)
(***************************************************************************)

\* The positions of out that hold an event of that kind for that job.
At(kind, id) == {p \in 1..Len(out) : out[p].ev = kind /\ out[p].id = id}

\* How many events of that kind the job had had when the event at position
\* p of out was emitted (in earlier handlers, and earlier in this one).
Before(kind, id, p) == hist[id][kind] - Cardinality({q \in At(kind, id) : q >= p})

Started(id) == At("State", id) \cup At("start", id)

(***************************************************************************)
(* Claims                                                                  *)
(***************************************************************************)

\* C1: of two jobs enqueued j1 then j2, j2 stays Waiting, and neither its
\* State change nor its start hook happens, until JobRemoved was emitted for
\* j1: jobs start one at a time in id order.
C1_StartInEnqueueOrder ==
    \A j2 \in JobIds : \A j1 \in 1..(j2 - 1) :
        /\ \A p \in Started(j2) : Before("JobRemoved", j1, p) >= 1
        /\ (hist[j2]["JobNew"] >= 1 /\ hist[j1]["JobRemoved"] = 0)
              => /\ job[j2].state = "waiting"
                 /\ hist[j2]["State"] = 0
                 /\ hist[j2]["start"] = 0

\* Job 2, enqueued while job 1 was running, was started by the handler that
\* removed job 1.
C1_Witness ==
    /\ \E p \in At("JobRemoved", 1) : \E q \in At("start", 2) : p < q
    /\ job[2].state = "running"

\* C2: at most one job of the queue is Running, a job is Running exactly
\* when it is current_job, and current_job is NULL exactly when none is.
C2_RunningIsCurrent ==
    /\ Cardinality({id \in Range(jobs) : job[id].state = "running"}) <= 1
    /\ \A id \in Range(jobs) : job[id].state = "running" <=> current_job = id
    /\ current_job # NULL => current_job \in Range(jobs)

\* One job runs with a call outstanding while another waits behind it.
C2_Witness ==
    /\ current_job # NULL
    /\ job[current_job].state = "running"
    /\ job[current_job].outstanding > 0
    /\ Len(jobs) >= 2

\* C3: a job started on an empty registry never has a call outstanding, has
\* finish called from its start hook, and leaves the finish task pending that
\* will emit its JobRemoved.
C3_EmptyRegistryJobFinishes ==
    \A p \in 1..Len(out) :
        (out[p].ev = "start" /\ out[p].n = 0)
           => /\ aborted = "none"
              /\ job[out[p].id].outstanding = 0
              /\ hist[out[p].id]["finish"] = 1
              /\ current_job = out[p].id
              /\ job_source = "finish"

\* C4: the result in JobRemoved is "failed" when a reply of the job was an
\* error or a timeout, and "done" when every reply was a success.
C4_ErrorReplyFailsJob ==
    [][\A p \in 1..Len(out') :
          out'[p].ev = "JobRemoved"
             => out'[p].res = (IF job[out'[p].id].replied_error THEN "failed" ELSE "done")]_vars

\* C5: JobRemoved is emitted at most once for a job, exactly once for a job
\* that was freed, and before the job's object is taken off the bus.
C5_RemovedOnceBeforeVtable ==
    \A id \in JobIds :
        /\ hist[id]["JobRemoved"] <= 1
        /\ hist[id]["free"] >= 1 => hist[id]["JobRemoved"] = 1
        /\ \A p \in At("vtable_removed", id) : Before("JobRemoved", id, p) = 1

\* A finish_job_cb emitted JobRemoved and then took the object off the bus.
C5_Witness ==
    \E id \in JobIds : \E p \in At("JobRemoved", id) : \E q \in At("vtable_removed", id) : p < q

\* C6: the reply of IsolateAll carrying a job's path is sent after JobNew for
\* that job.
C6_JobNewBeforeReply ==
    \A id \in JobIds : \A p \in At("Reply", id) : Before("JobNew", id, p) >= 1

C6_Witness ==
    \E id \in JobIds : \E p \in At("JobNew", id) : \E q \in At("Reply", id) : p < q

\* C7: a job's State change and start hook come after the reply of the call
\* that created it, and never in the handler that sent that reply.
C7_StartAfterReply ==
    /\ \A id \in JobIds : \A p \in Started(id) : Before("Reply", id, p) >= 1
    /\ (\E p \in 1..Len(out) : out[p].ev \in {"JobNew", "Reply"})
          => \A q \in 1..Len(out) : out[q].ev \notin {"State", "start"}

\* Job 1, enqueued on an idle orchestrator, was started by the deferred task.
C7_Witness ==
    /\ At("State", 1) # {}
    /\ At("start", 1) # {}
    /\ At("JobRemoved", 1) = {}
    /\ hist[1]["Reply"] = 1

\* C8: once JobRemoved was emitted for a job, no State change, JobNew or
\* JobRemoved is emitted for it and its start hook is not called.
C8_RemovedIsLast ==
    \A id \in JobIds : \A p \in 1..Len(out) :
        (out[p].id = id /\ out[p].ev \in {"State", "JobNew", "JobRemoved", "start"})
           => Before("JobRemoved", id, p) = 0

\* Job 1 was removed in an earlier handler, and job 2 has been removed since.
C8_Witness ==
    /\ hist[1]["JobRemoved"] = 1
    /\ At("JobRemoved", 2) # {}

\* Node i went down while its call for job id was outstanding.
DownWhileOutstanding(i, id) ==
    /\ i <= Len(nodes)
    /\ nodes[i].peer = "closing"
    /\ id \in nodes[i].reply_callbacks

\* C9: when a node goes down with its call for the running job outstanding,
\* the reply handler still runs, the job is removed with JobRemoved, and a
\* job queued behind it is started.
C9_DisconnectedJobCompletes ==
    \A id \in JobIds :
        (\E i \in 1..MaxNodes : DownWhileOutstanding(i, id))
           ~> /\ hist[id]["JobRemoved"] = 1
              /\ id \notin Range(jobs)
              /\ jobs # <<>> => hist[Head(jobs)]["State"] >= 1

\* The reply handler of a call on a node that had gone down ran last,
\* brought outstanding to 0 and called finish.
C9_Witness ==
    /\ last.op = "job_isolate_all_cb"
    /\ last.node <= Len(nodes)
    /\ nodes[last.node].peer = "closing"
    /\ job_source = "finish"
    /\ out # <<>>

NameTaken(name) == \E k \in 1..Len(nodes) : nodes[k].name = name

\* C10: Register fails with AddressInUse when the caller has a name or the
\* name is in the registry, and changes nothing then; an unnamed caller can
\* register any name that is not taken.
C10_RegisterConflict ==
    /\ [][\A i \in 1..MaxNodes : \A name \in Names :
             (last'.op = "Register" /\ last'.node = i /\ last'.name = name
                /\ i <= Len(nodes) /\ (nodes[i].name # NULL \/ NameTaken(name)))
                => /\ last'.reply = "AddressInUse"
                   /\ UNCHANGED <<next_job_id, jobs, job, current_job, job_source,
                                  nodes, aborted, hist>>]_vars
    /\ [](\A i \in 1..Len(nodes) : \A name \in Names :
             (nodes[i].name = NULL /\ ~NameTaken(name))
                => LET r == method_peer_orchestrator_register(Cur, i, name)
                   IN r.reply = "ok" /\ r.s.nodes[i].name = name)

\* An unnamed node asked for a name another node holds, and was refused.
C10_Witness ==
    /\ last.op = "Register"
    /\ last.reply = "AddressInUse"
    /\ nodes[last.node].name = NULL
    /\ NameTaken(last.name)

\* C11: when a call of IsolateAll's handler fails (malloc0, asprintf,
\* sd_bus_add_object_vtable), the client gets an error reply carrying the
\* code of the failure, the queue is as it was, and the process goes on.
C11_QueueFailureReplied ==
    [][last'.op = "IsolateAll"
          => /\ last'.reply = "error"
             /\ last'.errno # 0
             /\ jobs' = jobs
             /\ aborted' = "none"]_vars

\* C12: no two nodes of the registry have the same non-null name, and
\* orch_find_node returns NULL or a node that has the name asked for, never
\* a node without a name.
C12_NamesUnique ==
    /\ \A i \in 1..Len(nodes) : \A k \in 1..Len(nodes) :
          (i # k /\ nodes[i].name # NULL) => nodes[i].name # nodes[k].name
    /\ \A name \in Names :
          LET found == orch_find_node(Cur, name)
          IN found # NULL => /\ nodes[found].name # NULL
                             /\ nodes[found].name = name

\* The lookup passes over a node without a name and finds the node behind
\* it, while the other name is not found.
C12_Witness ==
    /\ Len(nodes) = 2
    /\ nodes[1].name = NULL
    /\ nodes[2].name # NULL
    /\ orch_find_node(Cur, nodes[2].name) = 2
    /\ \E name \in Names : orch_find_node(Cur, name) = NULL

\* C13 as stated: every node of the registry has a non-null name, and the
\* names are pairwise distinct.
C13_AllNodesNamed ==
    /\ \A i \in 1..Len(nodes) : nodes[i].name # NULL
    /\ \A i \in 1..Len(nodes) : \A k \in 1..Len(nodes) :
          i # k => nodes[i].name # nodes[k].name

\* C13, amended: a node of the registry has no name from its accept until
\* its Register succeeds, has a name and its object on the bus from then on,
\* and the nodes that have a name have pairwise distinct names.
C13_NamedNodesDistinct ==
    /\ \A i \in 1..Len(nodes) :
          /\ nodes[i].name \in Names \cup {NULL}
          /\ nodes[i].name # NULL <=> nodes[i].bus_slot
          /\ nodes[i].name # NULL <=> nodes[i].object_path # NULL
    /\ \A i \in 1..Len(nodes) : \A k \in 1..Len(nodes) :
          (i # k /\ nodes[i].name # NULL /\ nodes[k].name # NULL)
             => nodes[i].name # nodes[k].name

\* A Register has just succeeded while another node of the registry is
\* still without a name.
C13_Witness ==
    /\ last.op = "Register"
    /\ last.reply = "ok"
    /\ nodes[last.node].name = last.name
    /\ \E k \in 1..Len(nodes) : nodes[k].name = NULL

\* The jobs that come into being in a step: allocated by it and alive after
\* it, or allocated and released within it.
CreatedInStep(id) ==
    \/ job[id].ref_count = 0 /\ job'[id].ref_count > 0
    \/ \E p \in 1..Len(out') : out'[p].id = id /\ out'[p].ev \in {"JobNew", "free"}
                                 /\ job[id].ref_count = 0

\* C14: the id counter starts at 0 and never goes back; a job gets the
\* counter's value after an increment by one, so its id is at least 1 and
\* above every id taken before, also those taken by a creation that failed;
\* no id gets JobNew twice and the queue holds ids in increasing order.
C14_IdsIncrease ==
    /\ next_job_id = 0
    /\ [][/\ next_job_id' \in {next_job_id, next_job_id + 1}
          /\ \A id \in JobIds :
                CreatedInStep(id) => /\ id = next_job_id + 1
                                     /\ id = next_job_id'
                                     /\ id >= 1]_vars
    /\ [](/\ \A id \in JobIds : hist[id]["JobNew"] <= 1
          /\ \A id \in JobIds : job[id].ref_count > 0 => id <= next_job_id
          /\ \A p \in 1..Len(jobs) : \A q \in 1..Len(jobs) : p < q => jobs[p] < jobs[q])

\* Id 1 went to a job creation that failed at asprintf, and the job created
\* after it has id 2.
C14_Witness ==
    /\ next_job_id = 2
    /\ hist[1]["JobNew"] = 0
    /\ hist[1]["free"] = 0
    /\ hist[2]["JobNew"] = 1
    /\ 2 \in Range(jobs)

\* C15: every call of finish_job finds current_job == job and
\* job_source == NULL: neither of its two asserts ever stops the process.
C15_FinishAssertsHold ==
    /\ aborted # "assert current_job == job"
    /\ aborted # "assert job_source == NULL"

\* C16: while the process runs, a non-null job_source is the one pending
\* task: a start, with no current job and a Waiting head, or a finish, with
\* current_job the Running head of the queue.  A task is registered only
\* when none is pending, and an IsolateAll that arrives while a job is
\* current or a task is pending registers none.
C16_OneTransitionPending ==
    /\ [](aborted = "none"
            => /\ job_source \in {"NULL", "start", "finish"}
               /\ job_source = "start"
                     => /\ current_job = NULL
                        /\ jobs # <<>>
                        /\ job[Head(jobs)].state = "waiting"
               /\ job_source = "finish"
                     => /\ current_job # NULL
                        /\ jobs # <<>>
                        /\ current_job = Head(jobs)
                        /\ job[current_job].state = "running")
    /\ [][/\ job_source' # job_source => (job_source = "NULL" \/ job_source' = "NULL")
          /\ (next_job_id' # next_job_id /\ (current_job # NULL \/ job_source # "NULL"))
                => UNCHANGED <<job_source, current_job>>]_vars

\* Job 2 was enqueued by the last handler while the finish of job 1 was
\* pending, and the finish is still the pending task.
C16_Witness ==
    /\ At("JobNew", 2) # {}
    /\ job_source = "finish"
    /\ current_job = 1
    /\ jobs = <<1, 2>>

\* The nodes on which a call of the job is waiting for its reply handler.
PendingCalls(id) == {i \in 1..Len(nodes) : id \in nodes[i].reply_callbacks}

\* C17: outstanding is the number of the job's calls whose reply handler has
\* not run yet, so it never is negative and each run of the handler, in any
\* order of the replies, takes one off; finish_job is called at most once,
\* in the handler run that brings outstanding to 0; JobRemoved is emitted
\* with no call outstanding; and a job whose start hook returned with calls
\* outstanding gets to the call of finish_job.
C17_RepliesCountedDown ==
    /\ [](\A id \in JobIds :
             /\ job[id].outstanding = Cardinality(PendingCalls(id))
             /\ job[id].outstanding >= 0
             /\ hist[id]["finish"] <= 1
             /\ hist[id]["finish"] = 1 => job[id].outstanding = 0)
    /\ [][\A id \in JobIds :
             /\ (\E p \in 1..Len(out') : out'[p].id = id /\ out'[p].ev = "JobRemoved")
                   => job[id].outstanding = 0 /\ PendingCalls(id) = {}
             /\ (last'.op = "job_isolate_all_cb" /\ id \in nodes[last'.node].reply_callbacks
                   /\ id \notin nodes'[last'.node].reply_callbacks)
                   => /\ job'[id].outstanding = job[id].outstanding - 1
                      /\ hist'[id]["finish"] = (IF job[id].outstanding = 1 THEN 1 ELSE 0)
                      /\ aborted' = "none"]_vars
    /\ \A id \in JobIds :
          (job[id].outstanding > 0 /\ aborted = "none") ~> (hist[id]["finish"] = 1)

\* Of the two calls of job 1 the one on the second node was answered first:
\* outstanding went from 2 to 1 and finish_job has not been called.
C17_Witness ==
    /\ last.op = "job_isolate_all_cb"
    /\ last.node = 2
    /\ current_job = 1
    /\ job[1].outstanding = 1
    /\ PendingCalls(1) = {1}
    /\ hist[1]["finish"] = 0

\* The positions of the registry the start hook of the job called Isolate
\* on in the last handler, in the order of the calls.
IsolateCalls(o, id) ==
    LET at == {p \in 1..Len(o) : o[p].ev = "Isolate" /\ o[p].id = id}
        nth(k) == CHOOSE p \in at : Cardinality({q \in at : q < p}) = k - 1
    IN [k \in 1..Cardinality(at) |-> o[nth(k)].n]

\* C18: a start hook that runs on a registry of N nodes calls Isolate on the
\* nodes 1..N, once each and in that order, and leaves outstanding = N with
\* one call pending on every node; the accept of a node leaves the jobs and
\* the pending calls as they were, and the new node has no call pending.
C18_OneCallPerNode ==
    [][/\ \A p \in 1..Len(out') :
             out'[p].ev = "start"
                => /\ out'[p].n = Len(nodes)
                   /\ IsolateCalls(out', out'[p].id) = [k \in 1..Len(nodes) |-> k]
                   /\ job'[out'[p].id].outstanding = Len(nodes)
                   /\ \A i \in 1..Len(nodes) : out'[p].id \in nodes'[i].reply_callbacks
       /\ Len(nodes') = Len(nodes) + 1
             => /\ job' = job
                /\ nodes'[Len(nodes')].reply_callbacks = {}
                /\ \A i \in 1..Len(nodes) :
                      nodes'[i].reply_callbacks = nodes[i].reply_callbacks]_vars

\* C19: only nodes that have registered are called: a node without a name
\* has no Isolate call pending, and outstanding counts calls on nodes with a
\* name only.
C19_OnlyRegisteredCalled ==
    /\ \A i \in 1..Len(nodes) : nodes[i].name = NULL => nodes[i].reply_callbacks = {}
    /\ \A id \in JobIds :
          job[id].outstanding
             = Cardinality({i \in PendingCalls(id) : nodes[i].name # NULL})

C21_FreedOnceAfterRemoved ==
    \A id \in JobIds :
        /\ (id \in Range(jobs) \/ current_job = id \/ PendingCalls(id) # {})
              => job[id].ref_count > 0 /\ hist[id]["free"] = 0
        /\ job[id].ref_count >= 0
        /\ hist[id]["free"] <= 1
        /\ \A p \in At("free", id) : Before("JobRemoved", id, p) = 1
        /\ hist[id]["free"] = 1 => hist[id]["JobRemoved"] = 1 /\ job[id].ref_count = 0
        /\ (aborted = "none" /\ hist[id]["JobRemoved"] = 1) => hist[id]["free"] = 1

\* finish_job_cb emitted JobRemoved for job 1, started job 2, which now has
\* a call pending, and freed job 1 at its end.
C21_Witness ==
    /\ \E p \in At("JobRemoved", 1) : \E q \in At("free", 1) : p < q
    /\ job[1].ref_count = 0
    /\ current_job = 2
    /\ PendingCalls(2) # {}

\* C22: the Disconnected signal of node i removes that node from the
\* registry, with or without a name, and nothing else: the other nodes stay
\* as and where they were, and the jobs, the queue, current_job and the
\* pending task are untouched; the name it had is then not found, and any
\* node left without a name can register it.
C22_DisconnectRemovesNode ==
    [][last'.op = "node_disconnected"
          => /\ last'.node \in 1..Len(nodes)
             /\ last'.name = nodes[last'.node].name
             /\ nodes' = RemoveAt(nodes, last'.node)
             /\ UNCHANGED <<next_job_id, jobs, job, current_job, job_source, aborted, hist>>
             /\ last'.name # NULL
                   => /\ orch_find_node([nodes |-> nodes'], last'.name) = NULL
                      /\ \A k \in 1..Len(nodes') :
                            nodes'[k].name = NULL
                               => LET r == method_peer_orchestrator_register(
                                               [nodes |-> nodes'], k, last'.name)
                                  IN r.reply = "ok" /\ r.s.nodes[k].name = last'.name]_vars

\* A registered node was disconnected and removed, and the node behind it,
\* which has no name yet, is now the first of the registry.
C22_Witness ==
    /\ last.op = "node_disconnected"
    /\ last.node = 1
    /\ last.name # NULL
    /\ Len(nodes) = 1
    /\ nodes[1].name = NULL
    /\ nodes[1].peer = "open"

\* C23: a Register call that is not answered with success leaves the name
\* of its node as it was, and one that is answered with success sets it; so
\* a node without a successful Register has no name and is not found.
C23_NameOnlyOnSuccess ==
    [][last'.op = "Register"
          => /\ last'.node \in 1..Len(nodes)
             /\ last'.reply # "ok"
                   => nodes'[last'.node].name = nodes[last'.node].name
             /\ last'.reply = "ok"
                   => nodes[last'.node].name = NULL /\ nodes'[last'.node].name = last'.name]_vars

\* C24: while the process runs and the queue is not empty, a job is current
\* or a deferred task is pending; when the head of the queue is Waiting the
\* pending task is the start task, and the head gets started.
C24_NoLostWakeup ==
    /\ [](aborted = "none" /\ jobs # <<>>
            => /\ current_job # NULL \/ job_source # "NULL"
               /\ job[Head(jobs)].state = "waiting"
                     => current_job = NULL /\ job_source = "start")
    /\ \A id \in JobIds :
          (aborted = "none" /\ jobs # <<>> /\ Head(jobs) = id /\ job[id].state = "waiting")
             ~> (hist[id]["State"] = 1)

\* Job 1 has come and gone; job 2, enqueued on the idle orchestrator, waits
\* at the head of the queue with the start task pending.
C24_Witness ==
    /\ hist[1]["JobRemoved"] = 1
    /\ jobs = <<2>>
    /\ job[2].state = "waiting"
    /\ current_job = NULL
    /\ job_source = "start"

====
